---- MODULE Spec2Model ----
(***************************************************************************)
(* Hospital Patient Record System: the Flask handlers of                   *)
(* src/hospital_system.py over the MySQL table `patients`.                 *)
(*                                                                         *)
(* Text is a sequence of one-character strings, so that strip(), lower(),  *)
(* capitalize(), isdigit() and int() are computed character by character.  *)
(* A JSON or SQL value is a tagged record: Absent (key not in the body),   *)
(* Null, Str(text), Num(integer), DateStr(day) ('YYYY-MM-DD' text),        *)
(* Day(day) (SQL DATE), Stamp(day) (SQL TIMESTAMP).                        *)
(***************************************************************************)
EXTENDS Integers, Sequences, FiniteSets, TLC

\* ------------------------------------------------------------------ bounds
\* ids AUTO_INCREMENT hands out before the model stops inserting
MaxId == 2
\* days the server clock runs through
MaxDate == 2

\* ------------------------------------------------------------------ values
Absent == [t |-> "absent"]
Null == [t |-> "null"]
Str(s) == [t |-> "str", s |-> s]
Num(n) == [t |-> "int", n |-> n]
DateStr(d) == [t |-> "datestr", d |-> d]
Day(d) == [t |-> "date", d |-> d]
Stamp(d) == [t |-> "timestamp", d |-> d]
\* request.json when the request carries no JSON body
NoBody == [t |-> "nobody"]

IsStr(v) == v.t = "str"

\* ------------------------------------------------------------------ text
UpperCase == <<"A","B","C","D","E","F","G","H","I","J","K","L","M",
               "N","O","P","Q","R","S","T","U","V","W","X","Y","Z">>
LowerCase == <<"a","b","c","d","e","f","g","h","i","j","k","l","m",
               "n","o","p","q","r","s","t","u","v","w","x","y","z">>
Digits == <<"0","1","2","3","4","5","6","7","8","9">>
Whitespace == {" ", "\t", "\n"}

IndexIn(c, alphabet) ==
    IF \E i \in 1..Len(alphabet) : alphabet[i] = c
    THEN CHOOSE i \in 1..Len(alphabet) : alphabet[i] = c
    ELSE 0

LowerChar(c) == IF IndexIn(c, UpperCase) > 0 THEN LowerCase[IndexIn(c, UpperCase)] ELSE c
UpperChar(c) == IF IndexIn(c, LowerCase) > 0 THEN UpperCase[IndexIn(c, LowerCase)] ELSE c

\* str.lower()
lower(s) == [i \in 1..Len(s) |-> LowerChar(s[i])]

\* str.capitalize(): first character upper-cased, the rest lower-cased
capitalize(s) == [i \in 1..Len(s) |-> IF i = 1 THEN UpperChar(s[i]) ELSE LowerChar(s[i])]

RECURSIVE lstrip(_)
lstrip(s) == IF s # <<>> /\ Head(s) \in Whitespace THEN lstrip(Tail(s)) ELSE s

RECURSIVE rstrip(_)
rstrip(s) ==
    IF s # <<>> /\ s[Len(s)] \in Whitespace THEN rstrip(SubSeq(s, 1, Len(s) - 1)) ELSE s

\* str.strip()
strip(s) == rstrip(lstrip(s))

\* str.isdigit()
isdigit(s) == s # <<>> /\ \A i \in 1..Len(s) : IndexIn(s[i], Digits) > 0

RECURSIVE DigitsValue(_)
DigitsValue(s) ==
    IF s = <<>> THEN 0
    ELSE 10 * DigitsValue(SubSeq(s, 1, Len(s) - 1)) + (IndexIn(s[Len(s)], Digits) - 1)

\* int(v) raises nothing: a JSON integer, or text that is digits once stripped
\* (an optional sign in front)
Unsigned(s) == IF s # <<>> /\ Head(s) \in {"+", "-"} THEN Tail(s) ELSE s
IntOk(v) ==
    \/ v.t = "int"
    \/ v.t = "str" /\ isdigit(Unsigned(strip(v.s)))

\* int(v), where IntOk(v)
IntOf(v) ==
    IF v.t = "int" THEN v.n
    ELSE LET s == strip(v.s)
         IN IF s # <<>> /\ Head(s) = "-" THEN 0 - DigitsValue(Tail(s))
            ELSE DigitsValue(Unsigned(s))

\* Python truthiness of a JSON value: None, '' and 0 are falsy
Truthy(v) ==
    CASE v.t = "null" -> FALSE
      [] v.t = "absent" -> FALSE
      [] v.t = "str" -> v.s # <<>>
      [] v.t = "int" -> v.n # 0
      [] OTHER -> TRUE

sAdmitted == <<"A","d","m","i","t","t","e","d">>
sDischarged == <<"D","i","s","c","h","a","r","g","e","d">>
sadmitted == lower(sAdmitted)
sdischarged == lower(sDischarged)

\* ------------------------------------------------------------------ state
VARIABLES
    db,           \* the rows of table patients, by id
    nextId,       \* the table's AUTO_INCREMENT counter
    tableExists,  \* whether table patients has been created
    collation,    \* "ci" or "bin": how the store compares text
    dbUp,         \* whether the store can be reached
    conn,         \* hospital_system.conn is set
    today,        \* the server's current date
    req,          \* the request being answered, NoRequest when the server is idle
    resp,         \* its response
    thread,       \* the requests handled at the same time, each at its statement
    wire,         \* the result sets the store has sent and no one has read, in order
    cursor        \* hospital_system.cursor: the result set it is reading

vars == <<db, nextId, tableExists, collation, dbUp, conn, today, req, resp, thread, wire, cursor>>

Ids == 1..MaxId
\* ids a request may name: one more than the table ever holds

RequiredFields == <<"patient_name", "age", "gender", "contact", "disease">>
BodyFields == {"patient_name", "age", "gender", "contact", "address", "disease",
               "admission_date", "status", "discharge_date"}

EmptyTable == [i \in {} |-> Null]

\* jsonify(...), status: the error text is kept as its kind, `field` is the
\* field a message names, `data` the payload
Reply(code, error, field, data) ==
    [code |-> code, error |-> error, field |-> field, data |-> data]

DbFailed == Reply(500, "Database connection failed", "", Null)
\* except Error: the store refused the statement
SqlError == Reply(500, "sql error", "", Null)

\* HospitalSystem.get_db_connection: the handle is usable, or connect_db makes one
Connected == dbUp
ConnAfter == conn \/ dbUp

\* the store's text comparison in WHERE status = '...'
SqlEq(a, b) == IF collation = "ci" THEN lower(a) = lower(b) ELSE a = b

\* the DATE a statement parameter is stored as
SqlDate(v) == IF v.t = "datestr" THEN Day(v.d) ELSE v

\* convert_row_to_json: dates and timestamps become 'YYYY-MM-DD' text
ConvertValue(v) == IF v.t \in {"date", "timestamp"} THEN DateStr(v.d) ELSE v
convert_row_to_json(row) == [k \in DOMAIN row |-> ConvertValue(row[k])]

\* datetime.now().strftime('%Y-%m-%d')
TodayStr == DateStr(today)

\* a handler's effect: response, table, counter, connection handle
Outcome(r, table, counter, handle) ==
    [resp |-> r, db |-> table, nextId |-> counter, conn |-> handle]

\* a handler that returned before get_db_connection
Rejected(r) == Outcome(r, db, nextId, conn)
\* a handler that returned after it without writing
Answered(r) == Outcome(r, db, nextId, ConnAfter)

\* no request is being answered
NoRequest == [op |-> "none", id |-> 0, data |-> NoBody]
NoReply == Reply(0, "", "", Null)
Idle == req = NoRequest

\* the requests the server handles at the same time
Threads == {1, 2}
\* a thread that handles no request
IdleThread == [pc |-> "idle", op |-> "none", id |-> 0, query |-> <<>>, resp |-> NoReply]
\* HospitalSystem.__init__: self.cursor = None, no result set to read
NoResult == [unread |-> FALSE, rows |-> <<>>]

\* one request is received and handled to its response
Serve(op, id, data, out) ==
    /\ Idle
    /\ req' = [op |-> op, id |-> id, data |-> data]
    /\ resp' = out.resp
    /\ db' = out.db
    /\ nextId' = out.nextId
    /\ conn' = out.conn
    /\ UNCHANGED <<tableExists, collation, dbUp, today, thread, wire, cursor>>

Init ==
    /\ db = EmptyTable
    /\ nextId = 1
    /\ tableExists \in BOOLEAN
    /\ collation \in {"ci", "bin"}
    /\ dbUp = TRUE
    /\ conn = FALSE
    /\ today = 1
    /\ req = NoRequest
    /\ resp = NoReply
    /\ thread = [t \in Threads |-> IdleThread]
    /\ wire = <<>>
    /\ cursor = NoResult

\* ------------------------------------------------------------------ add_patient
\* the first required field that is missing or falsy, 0 when there is none
FirstMissing(data) ==
    LET bad == {i \in 1..Len(RequiredFields) :
                   data[RequiredFields[i]] = Absent \/ ~Truthy(data[RequiredFields[i]])}
    IN IF bad = {} THEN 0 ELSE CHOOSE i \in bad : \A j \in bad : i <= j

\* data.get('address', '')
AddressOrEmpty(data) == IF data.address = Absent THEN Str(<<>>) ELSE data.address

\* admission_date = data.get('admission_date') or today
AdmissionDate(data) ==
    IF Truthy(data.admission_date) THEN data.admission_date ELSE TodayStr

\* the row INSERT stores: status 'Admitted', discharge_date NULL by default
InsertedRow(data) ==
    [patient_name |-> Str(strip(data.patient_name.s)),
     age |-> Num(IntOf(data.age)),
     gender |-> Str(strip(data.gender.s)),
     contact |-> Str(strip(data.contact.s)),
     address |-> Str(strip(AddressOrEmpty(data).s)),
     disease |-> Str(strip(data.disease.s)),
     admission_date |-> SqlDate(AdmissionDate(data)),
     discharge_date |-> Null,
     status |-> Str(sAdmitted),
     created_at |-> Stamp(today)]

\* an id taken as MAX(id) + 1 instead of from the counter
NewIdAfterMax ==
    IF DOMAIN db = {} THEN 1 ELSE (CHOOSE i \in DOMAIN db : \A j \in DOMAIN db : j <= i) + 1

\* AUTO_INCREMENT: the id the next INSERT gets
NewId == nextId

Insert(table, id, row) ==
    [i \in DOMAIN table \cup {id} |-> IF i = id THEN row ELSE table[i]]

add_patient(data) ==
    IF data = NoBody
    THEN Rejected(Reply(400, "exception", "", Null))
    ELSE IF FirstMissing(data) # 0
    THEN Rejected(Reply(400, "Missing required field", RequiredFields[FirstMissing(data)], Null))
    ELSE IF ~Connected
    THEN Rejected(DbFailed)
    ELSE IF ~IsStr(data.patient_name)
    THEN Answered(Reply(400, "exception", "", Null))
    ELSE IF ~IntOk(data.age)
    THEN Answered(Reply(400, "Invalid data format", "", Null))
    ELSE IF ~IsStr(data.gender) \/ ~IsStr(data.contact)
            \/ ~IsStr(AddressOrEmpty(data)) \/ ~IsStr(data.disease)
    THEN Answered(Reply(400, "exception", "", Null))
    ELSE IF ~tableExists
    THEN Answered(SqlError)
    ELSE Outcome(Reply(201, "", "", Num(NewId)),
                 Insert(db, NewId, InsertedRow(data)), NewId + 1, TRUE)

AddPatient(data) ==
    /\ add_patient(data).nextId <= MaxId + 1
    /\ Serve("create", 0, data, add_patient(data))

\* ------------------------------------------------------------------ get_patient
get_patient(id) ==
    IF ~Connected THEN Rejected(DbFailed)
    ELSE IF ~tableExists THEN Answered(SqlError)
    ELSE IF id \notin DOMAIN db THEN Answered(Reply(404, "Patient not found", "", Null))
    ELSE Answered(Reply(200, "", "", convert_row_to_json(db[id])))

GetPatient(id) == Serve("get", id, NoBody, get_patient(id))

\* ------------------------------------------------------------------ update_patient
\* 'f' in data and data['f'] is not None
Has(data, f) == data[f] # Absent /\ data[f] # Null

\* data.get('discharge_date', today): the default serves only a missing key
DischargeDateParam(data) ==
    IF data.discharge_date = Absent THEN TodayStr ELSE data.discharge_date

\* the first exception raised while the SET list is built: "" when none
BuildError(data) ==
    IF Has(data, "patient_name") /\ ~IsStr(data.patient_name) THEN "exception"
    ELSE IF Has(data, "age") /\ ~IntOk(data.age) THEN "Invalid data format"
    ELSE IF Has(data, "gender") /\ ~IsStr(data.gender) THEN "exception"
    ELSE IF Has(data, "contact") /\ ~IsStr(data.contact) THEN "exception"
    ELSE IF Truthy(data.address) /\ ~IsStr(data.address) THEN "exception"
    ELSE IF Has(data, "disease") /\ ~IsStr(data.disease) THEN "exception"
    ELSE IF Has(data, "status") /\ ~IsStr(data.status) THEN "exception"
    ELSE ""

\* `if not updates`
NoUpdates(data) ==
    /\ \A f \in {"patient_name", "age", "gender", "contact", "disease", "status"} : ~Has(data, f)
    /\ data.address = Absent

\* the value a text column is SET to
StripOr(data, f, old) == IF Has(data, f) THEN Str(strip(data[f].s)) ELSE old

\* AddressSet without its `if 'address' in data` guard
AddressSetUnguarded(data, old) ==
    IF Truthy(data.address) THEN Str(strip(data.address.s)) ELSE Null

\* address = %s: data['address'].strip() if data['address'] else None
AddressSet(data, old) ==
    IF data.address = Absent THEN old
    ELSE IF Truthy(data.address) THEN Str(strip(data.address.s)) ELSE Null

\* status = %s: the stripped text as supplied
StatusSet(data, old) == StripOr(data, "status", old)

\* DischargeDateSet without its `elif ... == 'admitted'` branch
DischargeDateSetNoClear(data, old) ==
    IF ~Has(data, "status") THEN old
    ELSE IF lower(strip(data.status.s)) = sdischarged THEN SqlDate(DischargeDateParam(data))
    ELSE old

\* discharge_date = %s, appended only under a status of discharged or admitted
DischargeDateSet(data, old) ==
    IF ~Has(data, "status") THEN old
    ELSE IF lower(strip(data.status.s)) = sdischarged THEN SqlDate(DischargeDateParam(data))
    ELSE IF lower(strip(data.status.s)) = sadmitted THEN Null
    ELSE old

\* UPDATE patients SET ... WHERE id = %s
UpdatedRow(row, data) ==
    [patient_name |-> StripOr(data, "patient_name", row.patient_name),
     age |-> IF Has(data, "age") THEN Num(IntOf(data.age)) ELSE row.age,
     gender |-> StripOr(data, "gender", row.gender),
     contact |-> StripOr(data, "contact", row.contact),
     address |-> AddressSet(data, row.address),
     disease |-> StripOr(data, "disease", row.disease),
     admission_date |-> row.admission_date,
     discharge_date |-> DischargeDateSet(data, row.discharge_date),
     status |-> StatusSet(data, row.status),
     created_at |-> row.created_at]

\* strictJson: request.json raises on a request without a JSON body (it returns
\* None otherwise)
update_patient(id, data, strictJson) ==
    IF data = NoBody /\ strictJson THEN Rejected(Reply(400, "exception", "", Null))
    ELSE IF ~Connected THEN Rejected(DbFailed)
    ELSE IF ~tableExists THEN Answered(SqlError)
    ELSE IF id \notin DOMAIN db THEN Answered(Reply(404, "Patient not found", "", Null))
    ELSE IF data = NoBody THEN Answered(Reply(400, "exception", "", Null))
    ELSE IF BuildError(data) # "" THEN Answered(Reply(400, BuildError(data), "", Null))
    ELSE IF NoUpdates(data) THEN Answered(Reply(400, "No fields to update", "", Null))
    ELSE Outcome(Reply(200, "", "", Num(id)),
                 [db EXCEPT ![id] = UpdatedRow(db[id], data)], nextId, TRUE)

\* how request.json may behave for this body
JsonModes(data) == IF data = NoBody THEN BOOLEAN ELSE {TRUE}

UpdatePatient(id, data) ==
    \E strictJson \in JsonModes(data) : Serve("update", id, data, update_patient(id, data, strictJson))

\* ------------------------------------------------------------------ delete_patient
Remove(table, id) == [i \in DOMAIN table \ {id} |-> table[i]]

delete_patient(id) ==
    IF ~Connected THEN Rejected(DbFailed)
    ELSE IF ~tableExists THEN Answered(SqlError)
    ELSE IF id \notin DOMAIN db THEN Answered(Reply(404, "Patient not found", "", Null))
    ELSE Outcome(Reply(200, "", "", db[id].patient_name), Remove(db, id), nextId, TRUE)

DeletePatient(id) == Serve("delete", id, NoBody, delete_patient(id))

\* ------------------------------------------------------------------ discharge_patient
\* WHERE id = %s AND status = 'Admitted'
AdmittedRow(id) == id \in DOMAIN db /\ SqlEq(db[id].status.s, sAdmitted)

\* UPDATE patients SET status = 'Discharged', discharge_date = %s WHERE id = %s
DischargedRow(row, data) ==
    [row EXCEPT !.status = Str(sDischarged),
                !.discharge_date = SqlDate(DischargeDateParam(data))]

discharge_patient(id, data, strictJson) ==
    IF data = NoBody /\ strictJson THEN Rejected(Reply(500, "exception", "", Null))
    ELSE IF ~Connected THEN Rejected(DbFailed)
    ELSE IF ~tableExists THEN Answered(SqlError)
    ELSE IF ~AdmittedRow(id)
    THEN Answered(Reply(404, "Patient not found or already discharged", "", Null))
    ELSE IF data = NoBody THEN Answered(Reply(500, "exception", "", Null))
    ELSE Outcome(Reply(200, "", "", DischargeDateParam(data)),
                 [db EXCEPT ![id] = DischargedRow(db[id], data)], nextId, TRUE)

DischargePatient(id, data) ==
    \E strictJson \in JsonModes(data) :
        Serve("discharge", id, data, discharge_patient(id, data, strictJson))

\* ------------------------------------------------------------------ get_stats
StatsTotal == Cardinality(DOMAIN db)
StatsAdmitted == Cardinality({i \in DOMAIN db : SqlEq(db[i].status.s, sAdmitted)})
StatsDischarged == Cardinality({i \in DOMAIN db : SqlEq(db[i].status.s, sDischarged)})
StatsToday == Cardinality({i \in DOMAIN db : db[i].admission_date = Day(today)})

get_stats ==
    IF ~Connected THEN Rejected(DbFailed)
    ELSE IF ~tableExists THEN Answered(SqlError)
    ELSE Answered(Reply(200, "", "",
                        [total_patients |-> StatsTotal,
                         admitted |-> StatsAdmitted,
                         discharged |-> StatsDischarged,
                         today_admissions |-> StatsToday,
                         last_updated |-> Stamp(today)]))

GetStats == Serve("stats", 0, NoBody, get_stats)

\* ------------------------------------------------------------------ queries
\* patient_name LIKE %q%: q occurs in the name, compared as the store compares
Contains(name, q) ==
    \E i \in 1..(Len(name) - Len(q) + 1) : SqlEq(SubSeq(name, i, i + Len(q) - 1), q)

\* ORDER BY id DESC over the ids in S
RECURSIVE IdsDescending(_)
IdsDescending(S) ==
    IF S = {} THEN <<>>
    ELSE LET m == CHOOSE i \in S : \A j \in S : j <= i
         IN <<m>> \o IdsDescending(S \ {m})

\* primary-key order, the order of a SELECT without ORDER BY
RECURSIVE IdsAscending(_)
IdsAscending(S) ==
    IF S = {} THEN <<>>
    ELSE LET m == CHOOSE i \in S : \A j \in S : i <= j
         IN <<m>> \o IdsAscending(S \ {m})

\* LIMIT n
Limit(seq, n) == SubSeq(seq, 1, IF n < Len(seq) THEN n ELSE Len(seq))

\* the serialized rows of a result, in the order of ids
RowsJson(ids) == [k \in 1..Len(ids) |-> [id |-> ids[k], row |-> convert_row_to_json(db[ids[k]])]]

Listing(rows) == Reply(200, "", "", [count |-> Len(rows), patients |-> rows])

\* request.args.get('limit', 100)
DefaultLimit == 100
LimitArg(limit) == IF limit = Absent THEN Num(DefaultLimit) ELSE limit

\* the ids the search term selects: an exact id when int(search) succeeds
ListMatches(search) ==
    IF search = <<>> THEN DOMAIN db
    ELSE IF IntOk(Str(search)) THEN {i \in DOMAIN db : i = IntOf(Str(search))}
    ELSE {i \in DOMAIN db : Contains(db[i].patient_name.s, search)}

get_all_patients(search, limit) ==
    IF ~Connected THEN Rejected(DbFailed)
    ELSE IF ~IntOk(LimitArg(limit)) THEN Answered(Reply(500, "exception", "", Null))
    ELSE IF ~tableExists \/ IntOf(LimitArg(limit)) < 0 THEN Answered(SqlError)
    ELSE Answered(Listing(RowsJson(Limit(IdsDescending(ListMatches(search)),
                                         IntOf(LimitArg(limit))))))

GetAllPatients(search, limit) ==
    Serve("list", 0, [search |-> Str(search), limit |-> limit], get_all_patients(search, limit))

\* the ids the query selects: an exact id when the query is all digits
SearchMatches(query) ==
    IF isdigit(query) THEN {i \in DOMAIN db : i = IntOf(Str(query))}
    ELSE {i \in DOMAIN db : Contains(db[i].patient_name.s, query)}

\* no ORDER BY: the rows come in primary-key order
search_patients(query) ==
    IF ~Connected THEN Rejected(DbFailed)
    ELSE IF ~tableExists THEN Answered(SqlError)
    ELSE Answered(Listing(RowsJson(IdsAscending(SearchMatches(query)))))

SearchPatients(query) == Serve("search", 0, Str(query), search_patients(query))

\* WHERE status = status.capitalize()
StatusMatches(status) == {i \in DOMAIN db : SqlEq(db[i].status.s, capitalize(status))}

\* ORDER BY admission_date DESC leaves rows of one date in any order: the
\* result is kept as the set of its rows
get_patients_by_status(status) ==
    IF ~Connected THEN Rejected(DbFailed)
    ELSE IF lower(status) \notin {sadmitted, sdischarged}
    THEN Answered(Reply(400, "Invalid status", "", Null))
    ELSE IF ~tableExists THEN Answered(SqlError)
    ELSE Answered(Reply(200, "", "",
                        [count |-> Cardinality(StatusMatches(status)),
                         patients |-> {[id |-> i, row |-> convert_row_to_json(db[i])] :
                                          i \in StatusMatches(status)}]))

GetPatientsByStatus(status) == Serve("by_status", 0, Str(status), get_patients_by_status(status))

\* ------------------------------------------------------------------ health, init
\* health_check answers 200 either way
health_check ==
    Answered(Reply(200, "", "", IF Connected THEN [status |-> "healthy"] ELSE [status |-> "unhealthy"]))

HealthCheck == Serve("health", 0, NoBody, health_check)

\* create_tables_if_not_exist: CREATE TABLE IF NOT EXISTS
init_database ==
    IF ~Connected THEN Rejected(Reply(500, "Failed to create database tables", "", Null))
    ELSE Answered(Reply(200, "", "", Null))

InitDatabase ==
    /\ Idle
    /\ req' = [op |-> "init", id |-> 0, data |-> NoBody]
    /\ resp' = init_database.resp
    /\ conn' = init_database.conn
    /\ tableExists' = (tableExists \/ Connected)
    /\ UNCHANGED <<db, nextId, collation, dbUp, today, thread, wire, cursor>>

\* the response is sent: the server waits for the next request
SendResponse ==
    /\ ~Idle
    /\ req' = NoRequest
    /\ resp' = NoReply
    /\ UNCHANGED <<db, nextId, tableExists, collation, dbUp, conn, today, thread, wire, cursor>>

\* ------------------------------------------------------------------ concurrent requests
\* The server handles each request on a thread of its own, and every handler
\* works on the one connection and the one cursor of hospital_system. A
\* statement's result travels in two parts: cursor.execute sends the statement
\* and reads the head of the next result set on the connection, fetchone and
\* fetchall read that result set's rows. The connection holds no lock, so a
\* thread may run between any two of these steps of another thread.

\* the rows a SELECT returns, as the store sends them
ResultRows(ids) == [k \in 1..Len(ids) |-> [id |-> ids[k], row |-> db[ids[k]]]]

\* get_patient: SELECT * FROM patients WHERE id = %s
GetResult(id) == ResultRows(IdsAscending({i \in DOMAIN db : i = id}))

\* search_patients: SELECT * FROM patients WHERE id = %s, or WHERE patient_name LIKE %s
SearchResult(query) == ResultRows(IdsAscending(SearchMatches(query)))

\* the result of the statement a thread's handler executes
Statement(t) ==
    IF thread[t].op = "get" THEN GetResult(thread[t].id) ELSE SearchResult(thread[t].query)

\* convert_row_to_json of a fetched row, id included
RowJson(r) == [id |-> r.id, row |-> convert_row_to_json(r.row)]

\* a thread's handler ends with this response
Finish(t, r) == thread' = [thread EXCEPT ![t].pc = "done", ![t].resp = r]

\* a request arrives and its handler calls hospital_system.get_db_connection
Begin(t, op, id, query) ==
    /\ Idle
    /\ thread[t].pc = "idle"
    /\ IF ~Connected
       THEN /\ thread' = [thread EXCEPT ![t] = [pc |-> "done", op |-> op, id |-> id,
                                                query |-> query, resp |-> DbFailed]]
            /\ UNCHANGED conn
       ELSE /\ thread' = [thread EXCEPT ![t] = [pc |-> "execute", op |-> op, id |-> id,
                                                query |-> query, resp |-> NoReply]]
            /\ conn' = ConnAfter
    /\ UNCHANGED <<db, nextId, tableExists, collation, dbUp, today, req, resp, wire, cursor>>

\* cursor.execute, first half: the connection refuses a statement while a
\* result set it has begun is unread (InternalError, answered 500 by
\* `except Error`); otherwise the statement goes to the store, which answers
\* the statements of a connection in the order they arrive
ExecuteSend(t) ==
    /\ thread[t].pc = "execute"
    /\ IF cursor.unread \/ ~tableExists
       THEN /\ Finish(t, SqlError)
            /\ UNCHANGED wire
       ELSE /\ thread' = [thread EXCEPT ![t].pc = "receive"]
            /\ wire' = Append(wire, Statement(t))
    /\ UNCHANGED <<db, nextId, tableExists, collation, dbUp, conn, today, req, resp, cursor>>

\* cursor.execute, second half: the thread reads the head of the next result
\* set on the connection, whichever statement it answers. A read while rows
\* of an earlier result set are still on the connection leaves the packet
\* stream out of step; those schedules are left out.
ExecuteReceive(t) ==
    /\ thread[t].pc = "receive"
    /\ ~cursor.unread
    /\ wire # <<>>
    /\ cursor' = [unread |-> TRUE, rows |-> Head(wire)]
    /\ wire' = Tail(wire)
    /\ thread' = [thread EXCEPT ![t].pc = "fetch"]
    /\ UNCHANGED <<db, nextId, tableExists, collation, dbUp, conn, today, req, resp>>

\* get_patient: cursor.fetchone(), then 404 or the row
FetchOne(t) ==
    /\ thread[t].pc = "fetch"
    /\ thread[t].op = "get"
    /\ IF cursor.rows = <<>>
       THEN /\ Finish(t, Reply(404, "Patient not found", "", Null))
            /\ cursor' = NoResult
       ELSE /\ Finish(t, Reply(200, "", "", RowJson(Head(cursor.rows))))
            /\ cursor' = [unread |-> Tail(cursor.rows) # <<>>, rows |-> Tail(cursor.rows)]
    /\ UNCHANGED <<db, nextId, tableExists, collation, dbUp, conn, today, req, resp, wire>>

\* search_patients: cursor.fetchall(), then the count and the rows
FetchAll(t) ==
    /\ thread[t].pc = "fetch"
    /\ thread[t].op = "search"
    /\ Finish(t, Listing([k \in 1..Len(cursor.rows) |-> RowJson(cursor.rows[k])]))
    /\ cursor' = NoResult
    /\ UNCHANGED <<db, nextId, tableExists, collation, dbUp, conn, today, req, resp, wire>>

\* the thread's response is sent and the thread ends
Return(t) ==
    /\ thread[t].pc = "done"
    /\ thread' = [thread EXCEPT ![t] = IdleThread]
    /\ UNCHANGED <<db, nextId, tableExists, collation, dbUp, conn, today, req, resp, wire, cursor>>

\* ------------------------------------------------------------------ environment
\* midnight passes
Tick ==
    /\ Idle
    /\ today < MaxDate
    /\ today' = today + 1
    /\ UNCHANGED <<db, nextId, tableExists, collation, dbUp, conn, req, resp, thread, wire, cursor>>

\* the store becomes unreachable: the handle stays, is_connected() turns false
DbFail ==
    /\ Idle
    /\ dbUp
    /\ dbUp' = FALSE
    /\ UNCHANGED <<db, nextId, tableExists, collation, conn, today, req, resp, thread, wire, cursor>>

DbRecover ==
    /\ Idle
    /\ ~dbUp
    /\ dbUp' = TRUE
    /\ UNCHANGED <<db, nextId, tableExists, collation, conn, today, req, resp, thread, wire, cursor>>

\* ------------------------------------------------------------------ inputs
tAnn == <<"A","n","n">>
tBob == <<"B","o","b">>
tF == <<"F">>
tM == <<"M">>
tPhone == <<"5","5","5">>
tFlu == <<"f","l","u">>
tCold == <<"c","o","l","d">>
tElm == <<"E","l","m">>
tPending == <<"p","e","n","d","i","n","g">>
tDISCHARGED == <<"D","I","S","C","H","A","R","G","E","D">>
Blank == <<" ">>
Pad(s) == <<" ">> \o s \o <<" ">>

\* a date a request carries: the day before the server's first day
SuppliedDate == DateStr(0)

EmptyBody == [f \in BodyFields |-> Absent]
With(data, f, v) == [data EXCEPT ![f] = v]

\* a body with the five required fields
ValidBody ==
    [EmptyBody EXCEPT !.patient_name = Str(Pad(tAnn)), !.age = Num(30), !.gender = Str(tF),
                      !.contact = Str(tPhone), !.disease = Str(tFlu)]

\* the same, carrying a status and a discharge_date as well
ValidBodyDischarged ==
    With(With(ValidBody, "status", Str(sDischarged)), "discharge_date", SuppliedDate)

TextFields == {"patient_name", "gender", "contact", "disease"}

\* Create bodies: the valid one, and it with one field left out, nulled, emptied,
\* blanked or otherwise changed
CreateBodies ==
    {ValidBody, ValidBodyDischarged, NoBody}
    \cup {With(ValidBody, RequiredFields[i], v) : i \in 1..Len(RequiredFields), v \in {Absent, Null}}
    \cup {With(ValidBody, f, Str(s)) : f \in TextFields, s \in {<<>>, Blank}}
    \cup {With(ValidBody, "age", v) : v \in {Num(0), Str(<<"3","0">>), Str(<<"x">>)}}
    \cup {With(ValidBody, "address", v) : v \in {Str(Pad(tElm)), Null}}
    \cup {With(ValidBody, "admission_date", SuppliedDate)}

\* the discharge_date a request may carry: none, null, a date
DischargeDates == {Absent, Null, SuppliedDate}

\* Update bodies that set the status
StatusBodies ==
    {With(With(EmptyBody, "status", Str(s)), "discharge_date", d) :
        s \in {Pad(sDischarged), tDISCHARGED, sadmitted, tPending}, d \in DischargeDates}
    \cup {With(EmptyBody, "status", Null), With(EmptyBody, "discharge_date", SuppliedDate)}

\* Update bodies that set other fields: one field, three text fields and the
\* address at once, a valid field next to an invalid or null one
FieldBodies ==
    {EmptyBody, NoBody}
    \cup {With(EmptyBody, "patient_name", v) : v \in {Str(Pad(tBob)), Null}}
    \cup {With(EmptyBody, "age", v) : v \in {Num(31), Str(<<"x">>), Null}}
    \cup {[EmptyBody EXCEPT !.gender = Str(tM), !.contact = Str(Blank),
                            !.disease = Str(Pad(tCold)), !.address = Str(Pad(tElm))]}
    \cup {With(EmptyBody, "address", v) : v \in {Null, Str(<<>>)}}
    \cup {With(With(EmptyBody, "patient_name", Str(tBob)), "age", Str(<<"x">>))}
    \cup {With(With(EmptyBody, "patient_name", Null), "age", Num(31))}
    \cup {With(EmptyBody, "status", Str(Pad(sDischarged))),
          With(EmptyBody, "discharge_date", SuppliedDate)}

\* Discharge bodies: no body, {} and bodies carrying discharge_date
DischargeBodies == {NoBody} \cup {With(EmptyBody, "discharge_date", d) : d \in DischargeDates}

\* the few bodies of the specification of all operations
CoreCreateBodies == {ValidBody, ValidBodyDischarged, With(ValidBody, "disease", Absent), NoBody}
CoreUpdateBodies ==
    {EmptyBody, NoBody, With(EmptyBody, "patient_name", Str(Pad(tBob))),
     With(EmptyBody, "age", Str(<<"x">>))}
CoreDischargeBodies == {EmptyBody, NoBody}

Queries == {<<"1">>, <<"n">>, <<"N">>}
Statuses == {sadmitted, sDischarged, tPending}
Limits == {Absent, Str(<<"1">>), Str(<<"x">>)}

\* ------------------------------------------------------------------ specifications
\* Spec: every operation and the environment, over the core bodies
Create == Idle /\ \E data \in CoreCreateBodies : AddPatient(data)
Update == Idle /\ \E id \in Ids, data \in CoreUpdateBodies : UpdatePatient(id, data)
Discharge == Idle /\ \E id \in Ids, data \in CoreDischargeBodies : DischargePatient(id, data)
Delete == Idle /\ \E id \in Ids : DeletePatient(id)
Get == Idle /\ \E id \in Ids : GetPatient(id)
Stats == Idle /\ GetStats
List == Idle /\ \E search \in Queries \cup {<<>>}, limit \in Limits : GetAllPatients(search, limit)
Search == Idle /\ \E query \in Queries : SearchPatients(query)
Filter == Idle /\ \E status \in Statuses : GetPatientsByStatus(status)
Health == Idle /\ HealthCheck
Initialize == Idle /\ InitDatabase

Next ==
    \/ Create
    \/ Update
    \/ Discharge
    \/ Delete
    \/ Get
    \/ Stats
    \/ List
    \/ Search
    \/ Filter
    \/ Health
    \/ Initialize
    \/ SendResponse
    \/ Tick
    \/ DbFail
    \/ DbRecover

Spec == Init /\ [][Next]_vars

\* the table exists and the clock stands still: the specifications below vary
\* the request bodies instead
InitReady == Init /\ tableExists
\* Create, Update, Get and Delete compare no text: one collation serves
InitReadyCi == InitReady /\ collation = "ci"

\* SpecStatus: status and discharge_date under every status body
StatusCreate == Idle /\ \E data \in {ValidBody, ValidBodyDischarged} : AddPatient(data)
StatusUpdate == Idle /\ \E id \in Ids, data \in StatusBodies : UpdatePatient(id, data)
StatusDischarge == Idle /\ \E id \in Ids, data \in DischargeBodies : DischargePatient(id, data)

NextStatus ==
    \/ StatusCreate
    \/ StatusUpdate
    \/ StatusDischarge
    \/ Delete
    \/ Get
    \/ Stats
    \/ SendResponse

SpecStatus == InitReady /\ [][NextStatus]_vars

\* SpecCreate: Create under every Create body
CreateAny == Idle /\ \E data \in CreateBodies : AddPatient(data)

NextCreate ==
    \/ CreateAny
    \/ Delete
    \/ Get
    \/ SendResponse

SpecCreate == InitReadyCi /\ [][NextCreate]_vars

\* SpecUpdate: Update under every field body
UpdateCreate == Idle /\ AddPatient(ValidBody)
UpdateAny == Idle /\ \E id \in Ids, data \in FieldBodies : UpdatePatient(id, data)

NextUpdate ==
    \/ UpdateCreate
    \/ UpdateAny
    \/ SendResponse

SpecUpdate == InitReadyCi /\ [][NextUpdate]_vars

\* SpecCursor: Get by ID and Search handled on two threads, statement by
\* statement, over patients created while no other request is in progress
NoThread == \A t \in Threads : thread[t].pc = "idle"
BobBody == With(ValidBody, "patient_name", Str(tBob))
CursorCreate ==
    /\ NoThread
    /\ ~cursor.unread
    /\ \E data \in {ValidBody, BobBody} : AddPatient(data)
BeginGet == \E t \in Threads, id \in Ids : Begin(t, "get", id, <<>>)
BeginSearch == \E t \in Threads, query \in Queries : Begin(t, "search", 0, query)
Send == \E t \in Threads : ExecuteSend(t)
Receive == \E t \in Threads : ExecuteReceive(t)
GetFetch == \E t \in Threads : FetchOne(t)
SearchFetch == \E t \in Threads : FetchAll(t)
Respond == \E t \in Threads : Return(t)

NextCursor ==
    \/ CursorCreate
    \/ SendResponse
    \/ BeginGet
    \/ BeginSearch
    \/ Send
    \/ Receive
    \/ GetFetch
    \/ SearchFetch
    \/ Respond

SpecCursor == InitReadyCi /\ [][NextCursor]_vars

\* ------------------------------------------------------------------ claims
\* the fields of a body other than status and discharge_date are all absent
OnlyStatus(data) == \A f \in BodyFields \ {"status", "discharge_date"} : data[f] = Absent

\* the DATE a request's discharge_date stands for: the current date when the
\* key is missing, else the value carried (null included)
RequestedDate(data) ==
    IF data.discharge_date = Absent THEN Day(today)
    ELSE IF data.discharge_date = Null THEN Null
    ELSE Day(data.discharge_date.d)

\* C1: every stored patient has a non-null discharge_date if and only if its
\* status is Discharged
C1_DateIffDischarged ==
    \A i \in DOMAIN db : (db[i].discharge_date # Null) <=> (db[i].status = Str(sDischarged))

\* C2: the stored status of every patient is exactly 'Admitted' or 'Discharged'
C2_StatusIsEnum ==
    \A i \in DOMAIN db : db[i].status \in {Str(sAdmitted), Str(sDischarged)}

C6_DischargeOptionalBody ==
    [][(Idle /\ req'.op = "discharge")
       => IF req'.id \in DOMAIN db /\ db[req'.id].status = Str(sAdmitted)
          THEN /\ resp'.code = 200
               /\ db'[req'.id].status = Str(sDischarged)
               /\ db'[req'.id].discharge_date =
                    IF req'.data = NoBody THEN Day(today) ELSE RequestedDate(req'.data)
          ELSE (/\ req'.data # NoBody
                /\ req'.id \notin DOMAIN db \/ db[req'.id].status = Str(sDischarged))
               => (resp'.code = 404 /\ db' = db)]_vars

\* C8: Statistics returns total_patients equal to admitted plus discharged
C8_TotalIsSum ==
    (req.op = "stats" /\ resp.code = 200)
    => resp.data.total_patients = resp.data.admitted + resp.data.discharged

\* the five required fields are supplied: non-empty text, an integer age, and
\* an address that is text when there is one
AllRequiredSupplied(data) ==
    /\ data # NoBody
    /\ \A f \in TextFields : IsStr(data[f]) /\ data[f].s # <<>>
    /\ data.age.t = "int"
    /\ data.address = Absent \/ IsStr(data.address)

\* C3: Create with the five required fields supplied and a reachable store
\* answers 201 with a positive id no existing patient holds, and a Get by ID of
\* that id then returns a record with status Admitted and null discharge_date
C3_CreateSucceeds ==
    [][(Idle /\ req'.op = "create" /\ AllRequiredSupplied(req'.data) /\ dbUp /\ tableExists)
       => /\ resp'.code = 201
          /\ resp'.data.n > 0
          /\ resp'.data.n \notin DOMAIN db
          /\ (get_patient(resp.data.n).resp.code = 200)'
          /\ (get_patient(resp.data.n).resp.data.status = Str(sAdmitted))'
          /\ (get_patient(resp.data.n).resp.data.discharge_date = Null)']_vars

\* a required field is missing, or its text is empty once trimmed
MissingOrBlank(data, f) == data[f] = Absent \/ (IsStr(data[f]) /\ strip(data[f].s) = <<>>)

\* C4: Create with one required field missing or empty after trimming answers
\* 400, names that field, and leaves the stored patients unchanged
C4_CreateRejects ==
    [][(Idle /\ req'.op = "create" /\ req'.data # NoBody)
       => \A i \in 1..Len(RequiredFields) :
            (/\ MissingOrBlank(req'.data, RequiredFields[i])
             /\ \A j \in 1..Len(RequiredFields) \ {i} : ~MissingOrBlank(req'.data, RequiredFields[j]))
            => /\ resp'.code = 400
               /\ resp'.error = "Missing required field"
               /\ resp'.field = RequiredFields[i]
               /\ db' = db]_vars

\* C7: Delete of an id with no stored patient answers 404 and changes nothing;
\* Delete of an existing id removes exactly that row; an id that was handed out
\* and is no longer stored is never stored again, so every later Get by ID of
\* it answers 404
C7_DeleteForGood ==
    [][/\ (Idle /\ req'.op = "delete" /\ dbUp /\ tableExists)
          => IF req'.id \in DOMAIN db
             THEN /\ resp'.code = 200
                  /\ DOMAIN db' = DOMAIN db \ {req'.id}
                  /\ \A j \in DOMAIN db' : db'[j] = db[j]
             ELSE resp'.code = 404 /\ db' = db
       /\ DOMAIN db' \subseteq 1..(nextId' - 1)
       /\ \A i \in Ids : (i < nextId /\ i \notin DOMAIN db) => i \notin DOMAIN db'
       /\ (Idle /\ req'.op = "get" /\ dbUp /\ tableExists /\ req'.id \notin DOMAIN db)
          => resp'.code = 404]_vars

\* C7 witness: a Get by ID of a deleted id answers 404 after a later Create
C7_Witness ==
    /\ req.op = "get"
    /\ resp.code = 404
    /\ req.id \notin DOMAIN db
    /\ \E j \in DOMAIN db : req.id < j

\* the request carries the JSON body its handler reads
CarriesBody == req.op \in {"create", "update", "discharge"} => req.data # NoBody

\* C9: while the store cannot be reached every operation answers with the
\* DatabaseUnavailable server error, whatever the body (checked for the
\* operations that query the table, on requests that carry their body)
C9_AllFailWhenDown ==
    (~Idle /\ ~dbUp /\ req.op # "health" /\ CarriesBody)
    => resp.code = 500 /\ resp.error \in {DbFailed.error, "Failed to create database tables"}

UpdatableFields == {"patient_name", "age", "gender", "contact", "address", "disease", "status"}

\* the body gives the field a value Update writes: any address, a non-null
\* value of another field
Sets(data, f) == IF f = "address" THEN data[f] # Absent ELSE data[f] \notin {Absent, Null}

\* what a written field holds afterwards: text trimmed, the age as an integer,
\* a null or empty address as null
Written(f, v) ==
    IF f = "age" THEN (IF v = Null THEN Null ELSE Num(IntOf(v)))
    ELSE IF v = Null \/ (f = "address" /\ v = Str(<<>>)) THEN Null
    ELSE Str(strip(v.s))

\* discharge_date after an Update: moved only by a status of discharged or admitted
CoupledDate(data, old) ==
    IF ~Sets(data, "status") THEN old
    ELSE IF lower(strip(data.status.s)) = sdischarged THEN RequestedDate(data)
    ELSE IF lower(strip(data.status.s)) = sadmitted THEN Null
    ELSE old

\* C10 as amended: an Update of an existing patient writes exactly the fields
\* its body sets (a non-null value, or any address), moves discharge_date only
\* with the status, and leaves the other fields, admission_date, created_at and
\* every other patient unchanged; a non-integer age, and a body that sets no
\* field, answer 400 and change nothing
C10_PartialUpdate ==
    [][(Idle /\ req'.op = "update" /\ req'.id \in DOMAIN db /\ req'.data # NoBody)
       => /\ DOMAIN db' = DOMAIN db
          /\ \A j \in DOMAIN db \ {req'.id} : db'[j] = db[j]
          /\ IF Sets(req'.data, "age") /\ ~IntOk(req'.data.age)
             THEN resp'.code = 400 /\ db' = db
             ELSE IF \A f \in UpdatableFields : ~Sets(req'.data, f)
             THEN resp'.code = 400 /\ resp'.error = "No fields to update" /\ db' = db
             ELSE /\ resp'.code = 200
                  /\ \A f \in UpdatableFields :
                        db'[req'.id][f] = IF Sets(req'.data, f) THEN Written(f, req'.data[f])
                                          ELSE db[req'.id][f]
                  /\ db'[req'.id].discharge_date = CoupledDate(req'.data, db[req'.id].discharge_date)
                  /\ db'[req'.id].admission_date = db[req'.id].admission_date
                  /\ db'[req'.id].created_at = db[req'.id].created_at]_vars

\* C10 witness: an Update carrying only a null address has cleared the address
\* and nothing else of a patient, beside another patient
C10_Witness ==
    /\ req.op = "update"
    /\ req.data = With(EmptyBody, "address", Null)
    /\ resp.code = 200
    /\ db[req.id].address = Null
    /\ db[req.id].patient_name = Str(tAnn)
    /\ Cardinality(DOMAIN db) > 1

\* C10 as claimed: an accepted Update overwrites every updatable field whose
\* key is in the body, and leaves the fields whose key is not
C10_PresentFieldsOverwritten ==
    [][(Idle /\ req'.op = "update" /\ req'.id \in DOMAIN db /\ req'.data # NoBody
            /\ resp'.code = 200)
       => \A f \in UpdatableFields :
            db'[req'.id][f] = IF req'.data[f] # Absent THEN Written(f, req'.data[f])
                              ELSE db[req'.id][f]]_vars

\* C11: whatever the interleaving of two requests on the shared connection and
\* cursor, a Get by ID that answers from a result set answers with the stored
\* row of the id it asked for when that row exists, and with 404 when it does not
C11_GetAnswersOwnRow ==
    \A t \in Threads :
        (thread[t].op = "get" /\ thread[t].pc = "done" /\ thread[t].resp.code # 500)
        => IF thread[t].id \in DOMAIN db
           THEN /\ thread[t].resp.code = 200
                /\ thread[t].resp.data = [id |-> thread[t].id,
                                          row |-> convert_row_to_json(db[thread[t].id])]
           ELSE thread[t].resp.code = 404
====
